---- MODULE Spec2Model ----
(***************************************************************************)
(* addictive-videos-editor: the silence-segmentation engine                *)
(* (RemoveSilence.cut_clips) over the timeline it rewrites, and the        *)
(* orchestrator pipeline (main / Orchestrator) that drives the features.   *)
(*                                                                         *)
(* All quantities are frame counts (naturals).  A loud map is the list     *)
(* loud_map_json['v'][0] of records with the wire fields `offset` (the     *)
(* interval's start inside the asset) and `dur`.  The clip attributes fps  *)
(* and filename are passed through unchanged by cut_clips and are left     *)
(* out of the clip records.                                                *)
(***************************************************************************)
EXTENDS Integers, Sequences, FiniteSets, TLC

VARIABLES
    \* ---- timeline (entities.timeline.Timeline) ----
    video_assets_refs,          \* asset refs in registration order
    resources,                  \* per asset ref, its total duration in frames
    clips,                      \* the sequence's clip items, in stored order
    sequence_duration,          \* the timeline's cached total duration
    \* ---- RemoveSilence ----
    cumulative_duration,        \* self.cumulative_duration
    loud_map_files,             \* per asset ref read so far, its loud-map file's list
    \* ---- cut_clips locals ----
    pc,                         \* position inside cut_clips
    i,                          \* index of `ref` in video_assets_refs (outer loop)
    j,                          \* index of `loud_part` in loud_map (inner loop)
    loud_map,
    base_clip_duration,
    previous_video_duration,
    previous_loud_clip_offset,
    previous_loud_clip_start,
    previous_loud_clip_duration,
    updates,                    \* number of update_sequence_duration() calls made
    \* ---- Orchestrator / main ----
    args,                       \* parsed command-line flags, or "None"
    mpc,                        \* position inside main()
    preprocess_feat,
    input_folder,
    input_video,
    subtitles_video,
    timeline,
    remove_silence_feat,
    work,                       \* the feature calls that did work, in call order
    error                       \* the exception main() died of, or "None"

engine_vars == <<video_assets_refs, resources, clips, sequence_duration, cumulative_duration,
                 loud_map_files, pc, i, j, loud_map, base_clip_duration,
                 previous_video_duration, previous_loud_clip_offset,
                 previous_loud_clip_start, previous_loud_clip_duration, updates>>

main_vars == <<args, mpc, preprocess_feat, input_folder, input_video,
               subtitles_video, timeline, remove_silence_feat, work, error>>

vars == <<engine_vars, main_vars>>

----------------------------------------------------------------------------
(* Bounds of the model *)

MaxAssets == 2          \* most assets in one timeline
MaxD == 5               \* longest asset (frames) of a one-asset timeline
MaxSeqD == 3            \* longest asset (frames) of a timeline of several assets
MaxIntervals == 2       \* most intervals in one loud map

----------------------------------------------------------------------------
(* Pure helpers *)

RECURSIVE SumSeq(_)
SumSeq(s) == IF s = <<>> THEN 0 ELSE s[1] + SumSeq(Tail(s))

Prefix(s, n) == SubSeq(s, 1, n)

\* The durations (num_frames) of a list of clips.
Durations(cs) == [k \in 1..Len(cs) |-> cs[k].num_frames]

\* Asset durations of the timelines explored (an asset has at least one frame): any
\* single asset up to MaxD frames,
\* any list of 2..MaxAssets assets up to MaxSeqD frames each, and the timelines of
\* the scenarios of the specification (50; 100; 100 followed by 80).
AssetLists ==
    {<<d>> : d \in 1..MaxD}
    \cup UNION {[1..n -> 1..MaxSeqD] : n \in 2..MaxAssets}
    \cup {<<50>>, <<100>>, <<100, 80>>}

LoudParts(D) == [offset : 0..D, dur : 0..D]

\* The loud maps a file may hold for an asset of D frames: every list of at most
\* MaxIntervals intervals, in any order, overlapping or not, possibly running past
\* D; for the scenario assets, the scenario maps.
LoudMaps(D) ==
    IF D <= MaxD
    THEN UNION {[1..n -> LoudParts(D)] : n \in 0..MaxIntervals}
    ELSE {<<>>,
          <<[offset |-> 0, dur |-> D]>>,
          <<[offset |-> 10, dur |-> 20], [offset |-> 50, dur |-> 10]>>}

----------------------------------------------------------------------------
(* Timeline store *)

\* Index in `cs` of the n-th (0-based) stored clip of asset `ref`, 0 if absent.
RECURSIVE StoredIndexFrom(_, _, _, _)
StoredIndexFrom(cs, ref, n, p) ==
    IF p > Len(cs) THEN 0
    ELSE IF cs[p].ref = ref
         THEN IF n = 0 THEN p ELSE StoredIndexFrom(cs, ref, n - 1, p + 1)
         ELSE StoredIndexFrom(cs, ref, n, p + 1)

get_stored_video_asset(cs, ref, n) == cs[StoredIndexFrom(cs, ref, n, 1)]

get_clip_attributes(c) == [num_frames |-> c.num_frames]

add_clip_to_timeline(cs, video_ref, num_frames, start, offset, custom_attrib, site) ==
    Append(cs, [ref |-> video_ref, num_frames |-> num_frames, start |-> start,
                offset |-> offset, ave_silent |-> custom_attrib, site |-> site])

remove_stored_video_asset(cs, ref, n) ==
    LET p == StoredIndexFrom(cs, ref, n, 1)
    IN  SubSeq(cs, 1, p - 1) \o SubSeq(cs, p + 1, Len(cs))

update_sequence_duration(cs) == SumSeq(Durations(cs))

\* The timeline as Concatenate leaves it: one full-duration clip per asset.
ConcatenatedClips(ds) ==
    [k \in 1..Len(ds) |->
        [ref |-> k, num_frames |-> ds[k], start |-> 0,
         offset |-> SumSeq(Prefix(ds, k - 1)), ave_silent |-> FALSE, site |-> "base"]]

----------------------------------------------------------------------------
(* RemoveSilence.cut_clips *)

\* for ref in self.timeline.video_assets_refs
RefAtReversed(refs, n) == refs[Len(refs) - n + 1]
RefAt(refs, n) == refs[n]

\* silent_clip_start = previous_loud_clip_start + previous_loud_clip_duration
SilentClipStartIgnoresDuration(prev_start, prev_duration) == prev_start
SilentClipStart(prev_start, prev_duration) == prev_start + prev_duration

\* silent_clip_duration = loud_clip_start - silent_clip_start
SilentClipDuration(loud_clip_start, silent_clip_start) == loud_clip_start - silent_clip_start

\* silent_clip_offset = previous_loud_clip_offset + previous_loud_clip_duration
SilentClipOffset(prev_offset, prev_duration) == prev_offset + prev_duration

\* if silent_clip_duration > 0
SilentPartAddedAlways(silent_clip_duration) == silent_clip_duration >= 0
SilentPartAdded(silent_clip_duration) == silent_clip_duration > 0

\* loud_clip_offset = silent_clip_offset + silent_clip_duration
LoudClipOffsetIgnoresGap(silent_clip_offset, silent_clip_duration) == silent_clip_offset
LoudClipOffset(silent_clip_offset, silent_clip_duration) == silent_clip_offset + silent_clip_duration

\* custom_attrib={'ave_silent': 'true'} on the silent parts, none on the loud ones
SilentAttribDropped == FALSE
SilentAttrib == TRUE
LoudAttrib == FALSE

\* if previous_loud_clip_start + previous_loud_clip_duration < base_clip_duration
LastSilentPartAdded(prev_start, prev_duration, D) == prev_start + prev_duration < D

\* silent_clip_duration = base_clip_duration - silent_clip_start
LastSilentClipDurationOffByOne(D, silent_clip_start) == D - silent_clip_start - 1
LastSilentClipDuration(D, silent_clip_start) == D - silent_clip_start

\* self.cumulative_duration += base_clip_duration
CumulativeNotAdvanced(cumulative, D) == cumulative
NextCumulativeDuration(cumulative, D) == cumulative + D

\* Lines 114-119 append nothing and remove nothing before get_loud_map() raises.
ClipsRemovedBeforeLoad(cs, ref) == remove_stored_video_asset(cs, ref, 0)
ClipsWhenLoadRaises(cs, ref) == cs

\* Lines 114-126, get_loud_map() returning: the per-asset locals are set.
LoadLoudMap ==
    /\ pc = "for_ref"
    /\ i <= Len(video_assets_refs)
    /\ LET ref == RefAt(video_assets_refs, i)
           base_asset_clip == get_stored_video_asset(clips, ref, 0)
       IN  /\ base_clip_duration' = get_clip_attributes(base_asset_clip).num_frames
           /\ \E m \in LoudMaps(base_asset_clip.num_frames) :
                /\ loud_map' = m
                /\ loud_map_files' = (ref :> m) @@ loud_map_files
    /\ previous_video_duration' = cumulative_duration
    /\ previous_loud_clip_offset' = 0
    /\ previous_loud_clip_start' = 0
    /\ previous_loud_clip_duration' = 0
    /\ j' = 1
    /\ pc' = "for_loud_part"
    /\ UNCHANGED <<video_assets_refs, resources, clips, sequence_duration, cumulative_duration,
                   i, updates>>
    /\ UNCHANGED main_vars

\* Lines 114-119, get_loud_map() raising (no file, or no JSON in it): cut_clips
\* has no handler, so the exception leaves it.
LoadLoudMapRaises ==
    /\ pc = "for_ref"
    /\ i <= Len(video_assets_refs)
    /\ clips' = ClipsWhenLoadRaises(clips, RefAt(video_assets_refs, i))
    /\ pc' = "raised"
    /\ UNCHANGED <<video_assets_refs, resources, sequence_duration, cumulative_duration,
                   loud_map_files, i, j, loud_map, base_clip_duration,
                   previous_video_duration, previous_loud_clip_offset,
                   previous_loud_clip_start, previous_loud_clip_duration, updates>>
    /\ UNCHANGED main_vars

\* Lines 129-164: one iteration of `for loud_part in loud_map`.
CutLoudPart ==
    /\ pc = "for_loud_part"
    /\ j <= Len(loud_map)
    /\ LET ref == RefAt(video_assets_refs, i)
           loud_part == loud_map[j]
           loud_clip_start == loud_part.offset
           silent_clip_start ==
               SilentClipStart(previous_loud_clip_start, previous_loud_clip_duration)
           silent_clip_duration == SilentClipDuration(loud_clip_start, silent_clip_start)
           silent_clip_offset ==
               SilentClipOffset(previous_loud_clip_offset, previous_loud_clip_duration)
           with_silent ==
               IF SilentPartAdded(silent_clip_duration)
               THEN add_clip_to_timeline(clips, ref, silent_clip_duration,
                        silent_clip_offset, previous_video_duration + silent_clip_start,
                        SilentAttrib, "silent_part")
               ELSE clips
           loud_clip_offset == LoudClipOffset(silent_clip_offset, silent_clip_duration)
       IN  /\ clips' = add_clip_to_timeline(with_silent, ref, loud_part.dur,
                           loud_clip_start, previous_video_duration + loud_clip_offset,
                           LoudAttrib, "loud_part")
           /\ previous_loud_clip_start' = loud_clip_start
           /\ previous_loud_clip_offset' = loud_clip_offset
           /\ previous_loud_clip_duration' = loud_part.dur
    /\ j' = j + 1
    /\ UNCHANGED <<video_assets_refs, resources, sequence_duration, cumulative_duration,
                   loud_map_files, pc, i, loud_map, base_clip_duration,
                   previous_video_duration, updates>>
    /\ UNCHANGED main_vars

\* Lines 166-187: the trailing silent part, the cumulative base, the base clip.
FinishAsset ==
    /\ pc = "for_loud_part"
    /\ j > Len(loud_map)
    /\ LET ref == RefAt(video_assets_refs, i)
           silent_clip_start ==
               SilentClipStart(previous_loud_clip_start, previous_loud_clip_duration)
           silent_clip_duration == LastSilentClipDuration(base_clip_duration, silent_clip_start)
           silent_clip_offset ==
               SilentClipOffset(previous_loud_clip_offset, previous_loud_clip_duration)
           with_last ==
               IF LastSilentPartAdded(previous_loud_clip_start,
                                      previous_loud_clip_duration, base_clip_duration)
               THEN add_clip_to_timeline(clips, ref, silent_clip_duration,
                        silent_clip_offset, previous_video_duration + silent_clip_start,
                        SilentAttrib, "last_silent_part")
               ELSE clips
       IN  clips' = remove_stored_video_asset(with_last, ref, 0)
    /\ cumulative_duration' = NextCumulativeDuration(cumulative_duration, base_clip_duration)
    /\ i' = i + 1
    /\ pc' = "for_ref"
    /\ UNCHANGED <<video_assets_refs, resources, sequence_duration, loud_map_files, j, loud_map,
                   base_clip_duration, previous_video_duration,
                   previous_loud_clip_offset, previous_loud_clip_start,
                   previous_loud_clip_duration, updates>>
    /\ UNCHANGED main_vars

\* Line 190, after the loop over the assets.
UpdateSequenceDuration ==
    /\ pc = "for_ref"
    /\ i > Len(video_assets_refs)
    /\ sequence_duration' = update_sequence_duration(clips)
    /\ updates' = updates + 1
    /\ pc' = "done"
    /\ UNCHANGED <<video_assets_refs, resources, clips, cumulative_duration, loud_map_files, i, j,
                   loud_map, base_clip_duration, previous_video_duration,
                   previous_loud_clip_offset, previous_loud_clip_start,
                   previous_loud_clip_duration>>
    /\ UNCHANGED main_vars

----------------------------------------------------------------------------
(* Specification of the engine: cut_clips called on a concatenated timeline *)

MainIdle ==
    /\ args = "None"
    /\ mpc = "idle"
    /\ preprocess_feat = "None"
    /\ input_folder = "None"
    /\ input_video = "None"
    /\ subtitles_video = "None"
    /\ timeline = "None"
    /\ remove_silence_feat = "None"
    /\ work = <<>>
    /\ error = "None"

\* RemoveSilence(timeline, folder) has just been constructed on a timeline that
\* holds one full-duration clip per asset, its cached duration being their total.
Init ==
    /\ \E ds \in AssetLists :
          /\ video_assets_refs = [k \in 1..Len(ds) |-> k]
          /\ resources = ds
          /\ clips = ConcatenatedClips(ds)
          /\ sequence_duration = SumSeq(ds)
    /\ loud_map_files = <<>>
    /\ cumulative_duration = 0
    /\ pc = "for_ref"
    /\ i = 1
    /\ j = 1
    /\ loud_map = <<>>
    /\ base_clip_duration = 0
    /\ previous_video_duration = 0
    /\ previous_loud_clip_offset = 0
    /\ previous_loud_clip_start = 0
    /\ previous_loud_clip_duration = 0
    /\ updates = 0
    /\ MainIdle

Next ==
    \/ LoadLoudMap
    \/ LoadLoudMapRaises
    \/ CutLoudPart
    \/ FinishAsset
    \/ UpdateSequenceDuration

Spec == Init /\ [][Next]_vars

----------------------------------------------------------------------------
(* Orchestrator and main() *)

Flags == [skip_preprocess : BOOLEAN, already_preprocessed : BOOLEAN,
          just_subtitles : BOOLEAN, skip_subtitles : BOOLEAN, skip_jcut : BOOLEAN]

\* The engine is not running while main() is modelled.
EngineIdle ==
    /\ video_assets_refs = <<>>
    /\ resources = <<>>
    /\ clips = <<>>
    /\ sequence_duration = 0
    /\ cumulative_duration = 0
    /\ loud_map_files = <<>>
    /\ pc = "idle"
    /\ i = 1
    /\ j = 1
    /\ loud_map = <<>>
    /\ base_clip_duration = 0
    /\ previous_video_duration = 0
    /\ previous_loud_clip_offset = 0
    /\ previous_loud_clip_start = 0
    /\ previous_loud_clip_duration = 0
    /\ updates = 0

\* An attribute looked up on None or not defined by the object's class.
Raise(exc) ==
    /\ mpc' = "raised"
    /\ error' = exc

\* Orchestrator.__init__
InitMain ==
    /\ args = "None"
    /\ mpc = "parse_arguments"
    /\ preprocess_feat = "None"
    /\ input_folder = "None"
    /\ input_video = "None"
    /\ subtitles_video = "None"
    /\ timeline = "None"
    /\ remove_silence_feat = "None"
    /\ work = <<>>
    /\ error = "None"
    /\ EngineIdle

parse_arguments ==
    /\ mpc = "parse_arguments"
    /\ \E f \in Flags : args' = f
    /\ mpc' = "preprocess_videos"
    /\ UNCHANGED <<preprocess_feat, input_folder, input_video, subtitles_video,
                   timeline, remove_silence_feat, work, error>>
    /\ UNCHANGED engine_vars

\* self.preprocess_feat is None unless --already-preprocessed creates it.
preprocess_videos ==
    /\ mpc = "preprocess_videos"
    /\ IF args.just_subtitles \/ args.skip_preprocess
       THEN /\ mpc' = "determine_input_folder"
            /\ UNCHANGED <<preprocess_feat, error>>
       ELSE IF args.already_preprocessed
            THEN /\ preprocess_feat' = "PreprocessVideos"
                 /\ mpc' = "determine_input_folder"
                 /\ UNCHANGED error
            ELSE /\ Raise("AttributeError")
                 /\ UNCHANGED preprocess_feat
    /\ UNCHANGED <<args, input_folder, input_video, subtitles_video, timeline,
                   remove_silence_feat, work>>
    /\ UNCHANGED engine_vars

determine_input_folder ==
    /\ mpc = "determine_input_folder"
    /\ IF args.just_subtitles
       THEN /\ input_folder' = "dirname(input)"
            /\ input_video' = "input"
            /\ mpc' = "create_timeline"
            /\ UNCHANGED error
       ELSE IF args.already_preprocessed
            THEN IF preprocess_feat = "None"
                 THEN /\ Raise("AttributeError")
                      /\ UNCHANGED <<input_folder, input_video>>
                 ELSE /\ input_folder' = "preprocessed_folder"
                      /\ mpc' = "create_timeline"
                      /\ UNCHANGED <<input_video, error>>
            ELSE /\ input_folder' = "input"
                 /\ mpc' = "create_timeline"
                 /\ UNCHANGED <<input_video, error>>
    /\ UNCHANGED <<args, preprocess_feat, subtitles_video, timeline,
                   remove_silence_feat, work>>
    /\ UNCHANGED engine_vars

create_timeline ==
    /\ mpc = "create_timeline"
    /\ timeline' = IF args.just_subtitles THEN timeline ELSE "Timeline"
    /\ work' = IF args.just_subtitles THEN work ELSE Append(work, "create_timeline")
    /\ mpc' = "concatenate_files"
    /\ UNCHANGED <<args, preprocess_feat, input_folder, input_video, subtitles_video,
                   remove_silence_feat, error>>
    /\ UNCHANGED engine_vars

concatenate_files ==
    /\ mpc = "concatenate_files"
    /\ timeline' = IF args.just_subtitles THEN timeline ELSE "concatenated"
    /\ work' = IF args.just_subtitles THEN work ELSE Append(work, "concatenate")
    /\ mpc' = "remove_silence"
    /\ UNCHANGED <<args, preprocess_feat, input_folder, input_video, subtitles_video,
                   remove_silence_feat, error>>
    /\ UNCHANGED engine_vars

\* RemoveSilence defines no remove_silence_from_videos: the call at line 96 raises
\* AttributeError, and cut_clips is never reached from main().
remove_silence ==
    /\ mpc = "remove_silence"
    /\ IF args.just_subtitles
       THEN /\ mpc' = "determine_subtitles_video"
            /\ UNCHANGED <<remove_silence_feat, error>>
       ELSE /\ remove_silence_feat' = "RemoveSilence"
            /\ Raise("AttributeError")
    /\ UNCHANGED <<args, preprocess_feat, input_folder, input_video, subtitles_video,
                   timeline, work>>
    /\ UNCHANGED engine_vars

determine_subtitles_video ==
    /\ mpc = "determine_subtitles_video"
    /\ subtitles_video' = IF args.just_subtitles THEN input_video ELSE "final_preview"
    /\ mpc' = "add_subtitles"
    /\ UNCHANGED <<args, preprocess_feat, input_folder, input_video, timeline,
                   remove_silence_feat, work, error>>
    /\ UNCHANGED engine_vars

\* The calls add_subtitles makes, after its early returns at lines 127 and 128.
SubtitleWork(a) ==
    IF ~a.skip_jcut \/ a.skip_subtitles
    THEN <<>>
    ELSE (IF a.just_subtitles THEN <<>> ELSE <<"generate_final_preview_video">>)
             \o <<"generate_subtitles">>

add_subtitles ==
    /\ mpc = "add_subtitles"
    /\ work' = work \o SubtitleWork(args)
    /\ mpc' = "generate_fcpxml_file"
    /\ UNCHANGED <<args, preprocess_feat, input_folder, input_video, subtitles_video,
                   timeline, remove_silence_feat, error>>
    /\ UNCHANGED engine_vars

generate_fcpxml_file ==
    /\ mpc = "generate_fcpxml_file"
    /\ work' = IF args.just_subtitles THEN work ELSE Append(work, "generate_fcpxml_file")
    /\ mpc' = "done"
    /\ UNCHANGED <<args, preprocess_feat, input_folder, input_video, subtitles_video,
                   timeline, remove_silence_feat, error>>
    /\ UNCHANGED engine_vars

NextMain ==
    \/ parse_arguments
    \/ preprocess_videos
    \/ determine_input_folder
    \/ create_timeline
    \/ concatenate_files
    \/ remove_silence
    \/ determine_subtitles_video
    \/ add_subtitles
    \/ generate_fcpxml_file

SpecMain == InitMain /\ [][NextMain]_vars

----------------------------------------------------------------------------
(* Vocabulary of the properties *)

\* The sub-clips cut_clips appended for asset `ref`, in emission order.
IsSubClipOf(c, ref) == c.ref = ref /\ c.site # "base"
SubClips(ref) == SelectSeq(clips, LAMBDA c : IsSubClipOf(c, ref))

HasBaseClip(ref) == \E p \in 1..Len(clips) : clips[p].ref = ref /\ clips[p].site = "base"

\* Position of an asset in registration order.
PositionOf(ref) == CHOOSE n \in 1..Len(video_assets_refs) : video_assets_refs[n] = ref

\* The assets whose segmentation has completed (lines 114-187 ran for them).
Segmented == {ref \in DOMAIN loud_map_files : ~HasBaseClip(ref)}

\* Total duration of the assets registered before `ref`.
DurationBefore(ref) == SumSeq(Prefix(resources, PositionOf(ref) - 1))

SortedDisjoint(m) ==
    \A a, b \in 1..Len(m) : a < b => m[a].offset + m[a].dur <= m[b].offset

Within(m, D) == \A a \in 1..Len(m) : m[a].offset + m[a].dur <= D

PositiveDurations(m) == \A a \in 1..Len(m) : m[a].dur > 0

FromGap(c) == c.site \in {"silent_part", "last_silent_part"}

Triples(s) ==
    [k \in 1..Len(s) |->
        [start |-> s[k].start, num_frames |-> s[k].num_frames, silent |-> s[k].ave_silent]]

\* The cursor algorithm of the specification (section 4.2, steps 3-5).
RECURSIVE CursorCut(_, _, _)
CursorCut(m, c, D) ==
    IF m = <<>>
    THEN IF c < D THEN <<[start |-> c, num_frames |-> D - c, silent |-> TRUE]>> ELSE <<>>
    ELSE LET loudStart == Head(m).offset
             loudDur == Head(m).dur
             gap == IF loudStart > c
                    THEN <<[start |-> c, num_frames |-> loudStart - c, silent |-> TRUE]>>
                    ELSE <<>>
             c1 == IF loudStart > c THEN loudStart ELSE c
         IN  gap \o <<[start |-> c1, num_frames |-> loudDur, silent |-> FALSE]>>
                 \o CursorCut(Tail(m), c1 + loudDur, D)

ScenarioMap == <<[offset |-> 10, dur |-> 20], [offset |-> 50, dur |-> 10]>>

\* Contiguous, complete coverage of [0, D) by the sub-clips s.
Covers(s, D) ==
    /\ Len(s) > 0
    /\ s[1].start = 0
    /\ \A p \in 1..(Len(s) - 1) : s[p].start + s[p].num_frames = s[p + 1].start
    /\ s[Len(s)].start + s[Len(s)].num_frames = D
    /\ SumSeq(Durations(s)) = D
    /\ \A p \in 1..Len(s) : s[p].start + s[p].num_frames <= D

----------------------------------------------------------------------------
(* C1 *)

\* C1 as stated: for every segmented asset whose loud map is sorted ascending and
\* disjoint, the sub-clips start at in-point 0, are contiguous, end at D and sum to D.
C1_CoverageAsStated ==
    \A ref \in Segmented :
        SortedDisjoint(loud_map_files[ref]) => Covers(SubClips(ref), resources[ref])

\* C1 (amended): for every segmented asset whose loud map is sorted ascending,
\* disjoint and lies within [0, D], the sub-clips in emission order start at source
\* in-point 0, each ends where the next starts, the last ends at D, their durations
\* sum to D, and every one satisfies sourceInPoint + duration <= D.
C1_Coverage ==
    \A ref \in Segmented :
        (SortedDisjoint(loud_map_files[ref]) /\ Within(loud_map_files[ref], resources[ref]))
            => Covers(SubClips(ref), resources[ref])

\* An asset cut into silent, loud, silent, loud, silent by a well-formed map.
C1_Witness ==
    \E ref \in Segmented :
        /\ SortedDisjoint(loud_map_files[ref])
        /\ Within(loud_map_files[ref], resources[ref])
        /\ PositiveDurations(loud_map_files[ref])
        /\ Len(SubClips(ref)) = 5

----------------------------------------------------------------------------
(* C2 *)

\* C2: every sub-clip appended by cut_clips, for any loud map and any number of
\* assets, is placed at (total duration of the assets processed before its asset) +
\* (its source in-point); and in the two-asset scenario (D=100 silent, then D=80
\* with loud map [(0,80)]) the second asset's only sub-clip is placed at 100.
C2_Placement ==
    /\ \A p \in 1..Len(clips) :
          clips[p].site # "base"
              => clips[p].offset = DurationBefore(clips[p].ref) + clips[p].start
    /\ (/\ resources = <<100, 80>>
        /\ 2 \in Segmented
        /\ loud_map_files[2] = <<[offset |-> 0, dur |-> 80]>>)
          => /\ Len(SubClips(2)) = 1
             /\ SubClips(2)[1].offset = 100

\* A second asset has been cut into a leading gap and a loud part.
C2_Witness ==
    /\ Len(video_assets_refs) = 2
    /\ 2 \in Segmented
    /\ Len(SubClips(2)) >= 2
    /\ SubClips(2)[1].site = "silent_part"
    /\ SubClips(2)[2].site = "loud_part"
    /\ SubClips(2)[2].offset > SubClips(2)[2].start

----------------------------------------------------------------------------
(* C3 *)

\* C3: for every segmented asset with a sorted, disjoint loud map, the appended
\* (sourceInPoint, duration, silent-tag) triples are exactly the output of the
\* specification's cursor algorithm; a sub-clip carries the silent tag iff it was
\* emitted from a gap; D=100 with [(10,20),(50,10)] gives the five clips of the
\* scenario; an empty map gives the single clip (0, D, silent).
C3_MatchesCursorAlgorithm ==
    /\ \A ref \in Segmented :
          LET m == loud_map_files[ref]
              D == resources[ref]
              out == Triples(SubClips(ref))
          IN  /\ SortedDisjoint(m) => out = CursorCut(m, 0, D)
              /\ (D = 100 /\ m = ScenarioMap)
                    => out = <<[start |-> 0, num_frames |-> 10, silent |-> TRUE],
                               [start |-> 10, num_frames |-> 20, silent |-> FALSE],
                               [start |-> 30, num_frames |-> 20, silent |-> TRUE],
                               [start |-> 50, num_frames |-> 10, silent |-> FALSE],
                               [start |-> 60, num_frames |-> 40, silent |-> TRUE]>>
              /\ m = <<>> => out = <<[start |-> 0, num_frames |-> D, silent |-> TRUE]>>
    /\ \A p \in 1..Len(clips) :
          clips[p].site # "base" => (clips[p].ave_silent <=> FromGap(clips[p]))

\* The D=100 scenario has been segmented.
C3_Witness ==
    /\ resources = <<100>>
    /\ 1 \in Segmented
    /\ loud_map_files[1] = ScenarioMap
    /\ Len(SubClips(1)) = 5

----------------------------------------------------------------------------
(* C4 *)

\* C4: assets are segmented in registration order: whenever a sub-clip of an asset
\* is in the sequence, the base clip of every asset registered before it has been
\* removed, and the sub-clips lie in the sequence grouped by asset in registration
\* order; within one asset the loud sub-clips are the loud-map intervals consumed
\* so far, in the map's order.
C4_OrderPreserved ==
    /\ \A p \in 1..Len(clips) :
          clips[p].site # "base"
              => \A n \in 1..(PositionOf(clips[p].ref) - 1) :
                    ~HasBaseClip(video_assets_refs[n])
    /\ \A p, q \in 1..Len(clips) :
          (p < q /\ clips[p].site # "base" /\ clips[q].site # "base")
              => PositionOf(clips[p].ref) <= PositionOf(clips[q].ref)
    /\ \A ref \in Segmented :
          LET loud == SelectSeq(SubClips(ref), LAMBDA c : c.site = "loud_part")
              m == loud_map_files[ref]
          IN  /\ Len(loud) = Len(m)
              /\ \A k \in 1..Len(m) :
                    loud[k].start = m[k].offset /\ loud[k].num_frames = m[k].dur
    /\ pc = "done"
          => \A p \in 1..(Len(clips) - 1) :
                PositionOf(clips[p].ref) <= PositionOf(clips[p + 1].ref)

\* Two assets, each with a two-interval map, have been segmented to completion.
C4_Witness ==
    /\ pc = "done"
    /\ Len(video_assets_refs) = 2
    /\ Len(loud_map_files[1]) = 2
    /\ Len(loud_map_files[2]) = 2
    /\ loud_map_files[1][1] # loud_map_files[1][2]

----------------------------------------------------------------------------
(* C5 *)

\* C5: when loading the loud map of asset k raises, that step changes neither the
\* sequence nor cumulative_duration nor the cached sequence duration; afterwards
\* asset k has no sub-clip and still has its base clip, cumulative_duration is the
\* total of the assets segmented before k, and cut_clips stays ended by the
\* exception with the loop still at asset k (it is not skipped).
C5_LoadErrorLeavesState ==
    /\ [][(pc = "for_ref" /\ pc' = "raised")
            => /\ clips' = clips
               /\ cumulative_duration' = cumulative_duration
               /\ sequence_duration' = sequence_duration
               /\ i' = i]_vars
    /\ [](pc = "raised"
            => LET ref == video_assets_refs[i]
               IN  /\ SubClips(ref) = <<>>
                   /\ HasBaseClip(ref)
                   /\ ref \notin DOMAIN loud_map_files
                   /\ cumulative_duration = DurationBefore(ref)
                   /\ updates = 0)
    /\ [][pc = "raised" => (pc' = "raised" /\ i' = i)]_vars

\* The load of the second asset's map raised after the first asset was segmented.
C5_Witness ==
    /\ pc = "raised"
    /\ i = 2
    /\ Len(SubClips(video_assets_refs[1])) >= 2

----------------------------------------------------------------------------
(* C6 *)

----------------------------------------------------------------------------
(* C7 *)

\* C7 as stated: every sub-clip appended, for any asset and any loud map, has
\* duration > 0.
C7_NoZeroDurationAsStated ==
    \A p \in 1..Len(clips) : clips[p].site # "base" => clips[p].num_frames > 0

\* The sub-clip appended right after the sub-clip at position p of asset ref, if any.
Follows(s, p, site) == p < Len(s) /\ s[p + 1].site = site

\* C7 (amended): for any asset and any loud map, every silent sub-clip has
\* duration > 0, and a silent sub-clip stands before a loud one only as a positive
\* gap ending at that interval's start (so none is emitted before an interval that
\* starts at the cursor, a first interval at 0 included); a loud sub-clip has its
\* interval's duration, so every sub-clip has duration > 0 whenever every interval
\* of the loud map has.
C7_NoZeroDurationGap ==
    /\ \A p \in 1..Len(clips) : FromGap(clips[p]) => clips[p].num_frames > 0
    /\ \A ref \in 1..Len(video_assets_refs) :
          LET s == SubClips(ref)
          IN  \A p \in 1..Len(s) :
                 s[p].site = "silent_part"
                     => /\ Follows(s, p, "loud_part")
                        /\ s[p].start + s[p].num_frames = s[p + 1].start
    /\ \A ref \in Segmented :
          LET s == SubClips(ref)
              m == loud_map_files[ref]
          IN  /\ (m # <<>> /\ m[1].offset = 0) => s[1].site = "loud_part"
              /\ PositiveDurations(m) => \A p \in 1..Len(s) : s[p].num_frames > 0

\* A map whose first interval starts at 0 and whose second starts right at the
\* cursor has been applied: two loud sub-clips with no silent one before either.
C7_Witness ==
    \E ref \in Segmented :
        LET m == loud_map_files[ref]
            s == SubClips(ref)
        IN  /\ Len(m) = 2
            /\ PositiveDurations(m)
            /\ m[1].offset = 0
            /\ m[2].offset = m[1].dur
            /\ Len(s) >= 2
            /\ s[1].site = "loud_part"
            /\ s[2].site = "loud_part"

----------------------------------------------------------------------------
(* C10 *)

AllWellFormed ==
    \A ref \in DOMAIN loud_map_files :
        /\ SortedDisjoint(loud_map_files[ref])
        /\ Within(loud_map_files[ref], resources[ref])

\* C10: after cut_clips completes with every loud map sorted, disjoint and within
\* [0, D], the sequence holds no base clip and is one gap-free timeline: the first
\* clip is placed at 0, each clip ends where the next is placed (across assets
\* too), and the last ends at the sequence duration, which equals the sum of the
\* asset durations and cumulative_duration.
C10_GapFreeTimeline ==
    (pc = "done" /\ AllWellFormed)
        => /\ \A p \in 1..Len(clips) : clips[p].site # "base"
           /\ Len(clips) > 0
           /\ clips[1].offset = 0
           /\ \A p \in 1..(Len(clips) - 1) :
                 clips[p].offset + clips[p].num_frames = clips[p + 1].offset
           /\ clips[Len(clips)].offset + clips[Len(clips)].num_frames = sequence_duration
           /\ sequence_duration = SumSeq(resources)
           /\ sequence_duration = cumulative_duration

\* Two assets with well-formed, non-trivial maps have been segmented to completion.
C10_Witness ==
    /\ pc = "done"
    /\ AllWellFormed
    /\ Len(video_assets_refs) = 2
    /\ Len(SubClips(1)) >= 3
    /\ Len(SubClips(2)) >= 3

----------------------------------------------------------------------------
(* C8 *)

Ended == mpc \in {"done", "raised"}

Did(step) == \E k \in 1..Len(work) : work[k] = step

\* C8: a run of main() without --just-subtitles (no external tool fails in this
\* model) does not end before generate_fcpxml_file has rendered the timeline, and
\* by then concatenate has populated it and the remove_silence step has run the
\* segmentation engine, so that the rendered timeline is the segmented one.
C8_PipelineReachesRender ==
    (Ended /\ ~args.just_subtitles)
        => /\ mpc = "done"
           /\ error = "None"
           /\ Did("concatenate")
           /\ Did("generate_fcpxml_file")
           /\ remove_silence_feat = "RemoveSilence"

----------------------------------------------------------------------------
(* C9 *)

\* C9: a run with --just-subtitles and without --skip-subtitles, whatever the
\* other flags, ends having done exactly one piece of work, subtitle generation,
\* on the input video.
C9_JustSubtitles ==
    (Ended /\ args.just_subtitles /\ ~args.skip_subtitles)
        => /\ mpc = "done"
           /\ work = <<"generate_subtitles">>
           /\ subtitles_video = "input"

====
